---------------------------- MODULE Spec2Model ----------------------------
(***************************************************************************)
(* surety: wrappers over the fixed-width integers with a fixed overflow    *)
(* policy (Checked, Wrapping, Saturating, Overflowing).                     *)
(*                                                                         *)
(* The operators of the crate take their operands by value and return a   *)
(* new wrapper.  The model is a caller that owns one wrapper `cur` of one  *)
(* kind over one integer type, evaluates one operator of that wrapper      *)
(* (the result lands in `res`, the call in `call`), and then either binds  *)
(* the result as the new left operand (`*self = *self op rhs`) or drops    *)
(* it and goes on with the operand it had.  A panic ends the run.          *)
(*                                                                         *)
(* An integer type is [signed, bits]; its values are plain integers and    *)
(* every primitive reduces its result to the width of the type.            *)
(***************************************************************************)
EXTENDS Integers, FiniteSets

VARIABLES ty, kind, cur, call, res

vars == <<ty, kind, cur, call, res>>

(***************************************************************************)
(* Bounds of the model.                                                    *)
(***************************************************************************)
\* Width in bits of the modelled integer types (iN and uN with N = Bits).
Bits == 4
\* Exponents handed to pow range over 0 .. MaxExp.
MaxExp == 3

(***************************************************************************)
(* Integer types.                                                          *)
(***************************************************************************)
RECURSIVE Pow2(_)
Pow2(n) == IF n <= 0 THEN 1 ELSE 2 * Pow2(n - 1)

IntType(s, b) == [signed |-> s, bits |-> b]

Types == {IntType(s, Bits) : s \in BOOLEAN}

I8 == IntType(TRUE, 8)

MinValue(t) == IF t.signed THEN -Pow2(t.bits - 1) ELSE 0

MaxValue(t) == IF t.signed THEN Pow2(t.bits - 1) - 1 ELSE Pow2(t.bits) - 1

Range(t) == MinValue(t) .. MaxValue(t)

InRange(t, x) == MinValue(t) <= x /\ x <= MaxValue(t)

\* Two's-complement truncation of an exact result to the width of t.
Wrap(t, x) ==
    LET m == Pow2(t.bits)
        r == x % m
    IN  IF t.signed /\ r >= Pow2(t.bits - 1) THEN r - m ELSE r

\* Clamp of an exact result to the range of t.
Clamp(t, x) ==
    IF x > MaxValue(t) THEN MaxValue(t)
    ELSE IF x < MinValue(t) THEN MinValue(t)
    ELSE x

AbsInt(x) == IF x < 0 THEN -x ELSE x

\* Rust's `/` and `%` on integers truncate toward zero.
TruncDiv(a, b) ==
    LET q == AbsInt(a) \div AbsInt(b)
    IN  IF (a < 0) # (b < 0) THEN -q ELSE q

TruncRem(a, b) == a - b * TruncDiv(a, b)

\* i*::div_euclid / rem_euclid as the standard library computes them.
int_div_euclid(a, b) ==
    LET q == TruncDiv(a, b)
    IN  IF TruncRem(a, b) < 0
        THEN (IF b > 0 THEN q - 1 ELSE q + 1)
        ELSE q

int_rem_euclid(a, b) ==
    LET r == TruncRem(a, b)
    IN  IF r < 0 THEN (IF b < 0 THEN r - b ELSE r + b) ELSE r

\* The one quotient that does not fit: MIN / -1 of a signed type.
DivOverflows(t, a, b) == t.signed /\ a = MinValue(t) /\ b = -1

(***************************************************************************)
(* Option<T>: None is the empty set, Some(x) the singleton.                *)
(***************************************************************************)
None == {}

Some(x) == {x}

is_some(o) == o # None

Unwrapped(o) == CHOOSE v \in o : TRUE

\* Option::and_then; the closure is a function on the contained value.
and_then(o, func) == UNION {func[v] : v \in o}

option_or(o, p) == IF is_some(o) THEN o ELSE p

(***************************************************************************)
(* A panic: the value of a call that aborts.                               *)
(***************************************************************************)
Panic(msg) == [panic |-> msg]

Panicked(r) == "panic" \in DOMAIN r

DivideByZero == Panic("attempt to divide by zero")

ShiftAmountPanic == Panic("Could not convert the shift amount to u32")

(***************************************************************************)
(* Operands: a bare integer, or a wrapper of the same kind.                *)
(***************************************************************************)
Bare(n) == [bare |-> n]

IsBare(r) == "bare" \in DOMAIN r

OperandValue(r) == IF IsBare(r) THEN r.bare ELSE r.value

(***************************************************************************)
(* The integer primitives of the standard library the wrappers defer to.   *)
(* Option-returning ones return None on overflow; the overflowing_ ones    *)
(* return <<wrapped value, overflowed>>.  Division primitives are only      *)
(* evaluated for a non-zero divisor: the callers model the panic.           *)
(***************************************************************************)
checked_of(t, exact) == IF InRange(t, exact) THEN Some(exact) ELSE None

overflowing_of(t, exact) == <<Wrap(t, exact), ~InRange(t, exact)>>

checked_add(t, a, b) == checked_of(t, a + b)

checked_sub(t, a, b) == checked_of(t, a - b)

\* checked_mul with the carry discarded instead of reported.
checked_mul_wrapping(t, a, b) == Some(Wrap(t, a * b))

checked_mul(t, a, b) == checked_of(t, a * b)

checked_neg(t, a) == checked_of(t, -a)

checked_abs(t, a) == checked_of(t, AbsInt(a))

checked_div(t, a, b) ==
    IF b = 0 \/ DivOverflows(t, a, b) THEN None ELSE Some(TruncDiv(a, b))

checked_rem(t, a, b) ==
    IF b = 0 \/ DivOverflows(t, a, b) THEN None ELSE Some(TruncRem(a, b))

checked_div_euclid(t, a, b) ==
    IF b = 0 \/ DivOverflows(t, a, b) THEN None ELSE Some(int_div_euclid(a, b))

checked_rem_euclid(t, a, b) ==
    IF b = 0 \/ DivOverflows(t, a, b) THEN None ELSE Some(int_rem_euclid(a, b))

\* wrapping_add that reduces modulo 2^bits without folding into the sign.
wrapping_add_unsigned(t, a, b) == (a + b) % Pow2(t.bits)

wrapping_add(t, a, b) == Wrap(t, a + b)

\* wrapping_sub that stops at the edge of the range.
wrapping_sub_clamped(t, a, b) == Clamp(t, a - b)

wrapping_sub(t, a, b) == Wrap(t, a - b)

wrapping_mul(t, a, b) == Wrap(t, a * b)

wrapping_neg(t, a) == Wrap(t, -a)

wrapping_abs(t, a) == Wrap(t, AbsInt(a))

wrapping_div(t, a, b) == Wrap(t, TruncDiv(a, b))

wrapping_rem(t, a, b) == IF DivOverflows(t, a, b) THEN 0 ELSE TruncRem(a, b)

\* wrapping_div_euclid that rounds the quotient toward zero.
wrapping_div_euclid_truncating(t, a, b) ==
    IF DivOverflows(t, a, b) THEN a ELSE TruncDiv(a, b)

wrapping_div_euclid(t, a, b) == Wrap(t, int_div_euclid(a, b))

wrapping_rem_euclid(t, a, b) ==
    IF DivOverflows(t, a, b) THEN 0 ELSE int_rem_euclid(a, b)

saturating_add(t, a, b) == Clamp(t, a + b)

\* saturating_sub that clamps to MAX in both directions.
saturating_sub_to_max(t, a, b) ==
    IF InRange(t, a - b) THEN a - b ELSE MaxValue(t)

saturating_sub(t, a, b) == Clamp(t, a - b)

\* saturating_mul that clamps every overflow to MAX.
saturating_mul_to_max(t, a, b) ==
    IF InRange(t, a * b) THEN a * b ELSE MaxValue(t)

saturating_mul(t, a, b) == Clamp(t, a * b)

\* overflowing_add that already signals when the sum reaches MAX.
overflowing_add_inclusive(t, a, b) ==
    <<Wrap(t, a + b), a + b >= MaxValue(t) \/ a + b < MinValue(t)>>

overflowing_add(t, a, b) == overflowing_of(t, a + b)

overflowing_sub(t, a, b) == overflowing_of(t, a - b)

\* overflowing_mul that clamps the product instead of wrapping it.
overflowing_mul_clamped(t, a, b) == <<Clamp(t, a * b), ~InRange(t, a * b)>>

overflowing_mul(t, a, b) == overflowing_of(t, a * b)

overflowing_neg(t, a) == overflowing_of(t, -a)

\* overflowing_abs that stores MAX for the absolute value of MIN.
overflowing_abs_clamped(t, a) == <<Clamp(t, AbsInt(a)), ~InRange(t, AbsInt(a))>>

overflowing_abs(t, a) == overflowing_of(t, AbsInt(a))

\* overflowing_div that does not report MIN / -1.
overflowing_div_silent(t, a, b) ==
    IF DivOverflows(t, a, b) THEN <<a, FALSE>> ELSE <<TruncDiv(a, b), FALSE>>

overflowing_div(t, a, b) ==
    IF DivOverflows(t, a, b) THEN <<a, TRUE>> ELSE <<TruncDiv(a, b), FALSE>>

overflowing_rem(t, a, b) ==
    IF DivOverflows(t, a, b) THEN <<0, TRUE>> ELSE <<TruncRem(a, b), FALSE>>

overflowing_div_euclid(t, a, b) ==
    IF DivOverflows(t, a, b) THEN <<a, TRUE>> ELSE <<int_div_euclid(a, b), FALSE>>

overflowing_rem_euclid(t, a, b) ==
    IF DivOverflows(t, a, b) THEN <<0, TRUE>> ELSE <<int_rem_euclid(a, b), FALSE>>

\* pow: exponentiation by squaring, the last bit of the exponent apart.
RECURSIVE overflowing_pow_loop(_, _, _, _, _)
overflowing_pow_loop(t, base, acc, exp, ovf) ==
    IF exp > 1
    THEN LET a == IF exp % 2 = 1 THEN overflowing_mul(t, acc, base)
                                 ELSE <<acc, FALSE>>
             b == overflowing_mul(t, base, base)
         IN  overflowing_pow_loop(t, b[1], a[1], exp \div 2,
                                  ovf \/ a[2] \/ b[2])
    ELSE IF exp = 1
    THEN LET a == overflowing_mul(t, acc, base) IN <<a[1], ovf \/ a[2]>>
    ELSE <<acc, ovf>>

overflowing_pow(t, x, exp) == overflowing_pow_loop(t, x, 1, exp, FALSE)

RECURSIVE checked_pow_loop(_, _, _, _)
checked_pow_loop(t, base, acc, exp) ==
    IF exp > 1
    THEN LET a == IF exp % 2 = 1 THEN checked_mul(t, acc, base) ELSE Some(acc)
             b == checked_mul(t, base, base)
         IN  and_then(a, [x \in a |->
                 and_then(b, [y \in b |->
                     checked_pow_loop(t, y, x, exp \div 2)])])
    ELSE IF exp = 1 THEN checked_mul(t, acc, base)
    ELSE Some(acc)

checked_pow(t, x, exp) == checked_pow_loop(t, x, 1, exp)

RECURSIVE wrapping_pow_loop(_, _, _, _)
wrapping_pow_loop(t, base, acc, exp) ==
    IF exp > 1
    THEN wrapping_pow_loop(t, wrapping_mul(t, base, base),
                           IF exp % 2 = 1 THEN wrapping_mul(t, acc, base)
                                          ELSE acc,
                           exp \div 2)
    ELSE IF exp = 1 THEN wrapping_mul(t, acc, base)
    ELSE acc

wrapping_pow(t, x, exp) == wrapping_pow_loop(t, x, 1, exp)

saturating_pow(t, x, exp) ==
    LET c == checked_pow(t, x, exp)
    IN  IF is_some(c) THEN Unwrapped(c)
        ELSE IF x < 0 /\ exp % 2 = 1 THEN MinValue(t)
        ELSE MaxValue(t)

\* wrapping_shl that shifts by the whole amount: all bits leave the width
\* when the amount reaches it.
wrapping_shl_unmasked(t, x, n) ==
    IF n >= t.bits THEN 0 ELSE Wrap(t, x * Pow2(n))

\* Shifts: the amount is a u32; the wrapping forms mask it to the width.
wrapping_shl(t, x, n) == Wrap(t, x * Pow2(n % t.bits))

wrapping_shr(t, x, n) == x \div Pow2(n % t.bits)

overflowing_shl(t, x, n) == <<wrapping_shl(t, x, n), n >= t.bits>>

overflowing_shr(t, x, n) == <<wrapping_shr(t, x, n), n >= t.bits>>

checked_shl(t, x, n) ==
    IF n >= t.bits THEN None ELSE Some(wrapping_shl(t, x, n))

checked_shr(t, x, n) ==
    IF n >= t.bits THEN None ELSE Some(wrapping_shr(t, x, n))

\* u32::MAX, scaled with the width of the model: one bit more than T has.
U32_MAX == Pow2(Bits + 1) - 1

\* A conversion to u32 that drops the sign of the amount.
try_into_u32_magnitude(n) ==
    IF AbsInt(n) <= U32_MAX THEN Some(AbsInt(n)) ELSE None

\* TryInto<u32> of a shift amount of any integer type.
try_into_u32(n) == IF 0 <= n /\ n <= U32_MAX THEN Some(n) ELSE None

\* Shift amounts: negative, in range, the width and beyond, past u32::MAX.
ShiftAmounts == (-1 .. Bits + 1) \cup {U32_MAX, U32_MAX + 1}

Exponents == 0 .. MaxExp

(***************************************************************************)
(* Checked<T>                                                              *)
(***************************************************************************)
Checked(o) == [value |-> o]

\* From<T> for Checked, Ensure::checked
CheckedFrom(n) == Checked(Some(n))

\* A default that is a present zero.
CheckedDefault_zero == Checked(Some(0))

\* #[derive(Default)]: the default of Option<T> is None.
CheckedDefault == Checked(None)

\* Checked::and_then
Checked_and_then(self, func) == Checked(and_then(self.value, func))

CheckedAdd(t, self, rhs) ==
    IF IsBare(rhs)
    THEN Checked_and_then(self,
             [a \in self.value |-> checked_add(t, a, rhs.bare)])
    ELSE Checked_and_then(self,
             [a \in self.value |->
                 and_then(rhs.value, [b \in rhs.value |-> checked_add(t, a, b)])])

\* Sub for Checked that reads an absent left operand as zero.
CheckedSub_absent_as_zero(t, self, rhs) ==
    LET l == IF is_some(self.value) THEN self.value ELSE Some(0)
        r == IF IsBare(rhs) THEN Some(rhs.bare) ELSE rhs.value
    IN  Checked(UNION {checked_sub(t, a, b) : a \in l, b \in r})

CheckedSub(t, self, rhs) ==
    IF IsBare(rhs)
    THEN Checked_and_then(self,
             [a \in self.value |-> checked_sub(t, a, rhs.bare)])
    ELSE Checked_and_then(self,
             [a \in self.value |->
                 and_then(rhs.value, [b \in rhs.value |-> checked_sub(t, a, b)])])

CheckedMul(t, self, rhs) ==
    IF IsBare(rhs)
    THEN Checked_and_then(self,
             [a \in self.value |-> checked_mul(t, a, rhs.bare)])
    ELSE Checked_and_then(self,
             [a \in self.value |->
                 and_then(rhs.value, [b \in rhs.value |-> checked_mul(t, a, b)])])

CheckedDiv(t, self, rhs) ==
    IF IsBare(rhs)
    THEN Checked_and_then(self,
             [a \in self.value |-> checked_div(t, a, rhs.bare)])
    ELSE Checked_and_then(self,
             [a \in self.value |->
                 and_then(rhs.value, [b \in rhs.value |-> checked_div(t, a, b)])])

CheckedRem(t, self, rhs) ==
    IF IsBare(rhs)
    THEN Checked_and_then(self,
             [a \in self.value |-> checked_rem(t, a, rhs.bare)])
    ELSE Checked_and_then(self,
             [a \in self.value |->
                 and_then(rhs.value, [b \in rhs.value |-> checked_rem(t, a, b)])])

CheckedNeg(t, self) ==
    Checked_and_then(self, [a \in self.value |-> checked_neg(t, a)])

\* div_euclid for Checked that lets the integer division panic on zero.
CheckedDivEuclid_panics_on_zero(t, self, rhs) ==
    IF is_some(self.value) /\ rhs.value = Some(0) THEN DivideByZero
    ELSE Checked_and_then(self,
             [a \in self.value |->
                 and_then(rhs.value,
                     [b \in rhs.value |-> checked_div_euclid(t, a, b)])])

CheckedDivEuclid(t, self, rhs) ==
    Checked_and_then(self,
        [val \in self.value |->
            and_then(rhs.value, [b \in rhs.value |-> checked_div_euclid(t, val, b)])])

\* rem_euclid for Checked that lets the integer remainder panic on zero.
CheckedRemEuclid_panics_on_zero(t, self, rhs) ==
    IF is_some(self.value) /\ rhs.value = Some(0) THEN DivideByZero
    ELSE Checked_and_then(self,
             [a \in self.value |->
                 and_then(rhs.value,
                     [b \in rhs.value |-> checked_rem_euclid(t, a, b)])])

CheckedRemEuclid(t, self, rhs) ==
    Checked_and_then(self,
        [val \in self.value |->
            and_then(rhs.value, [b \in rhs.value |-> checked_rem_euclid(t, val, b)])])

CheckedAbs(t, self) ==
    Checked_and_then(self, [a \in self.value |-> checked_abs(t, a)])

CheckedPow(t, self, exp) ==
    Checked_and_then(self, [val \in self.value |-> checked_pow(t, val, exp)])

\* rhs.value?.try_into().ok()? : an absent amount, or one that is no u32,
\* leaves the closure with None.
CheckedShl(t, self, rhs) ==
    IF IsBare(rhs)
    THEN Checked_and_then(self,
             [val \in self.value |->
                 and_then(try_into_u32(rhs.bare),
                     [n \in try_into_u32(rhs.bare) |-> checked_shl(t, val, n)])])
    ELSE Checked_and_then(self,
             [val \in self.value |->
                 and_then(rhs.value,
                     [r \in rhs.value |->
                         and_then(try_into_u32(r),
                             [n \in try_into_u32(r) |-> checked_shl(t, val, n)])])])

CheckedShr(t, self, rhs) ==
    IF IsBare(rhs)
    THEN Checked_and_then(self,
             [val \in self.value |->
                 and_then(try_into_u32(rhs.bare),
                     [n \in try_into_u32(rhs.bare) |-> checked_shr(t, val, n)])])
    ELSE Checked_and_then(self,
             [val \in self.value |->
                 and_then(rhs.value,
                     [r \in rhs.value |->
                         and_then(try_into_u32(r),
                             [n \in try_into_u32(r) |-> checked_shr(t, val, n)])])])

\* or_insert that overwrites a present value as well.
CheckedOrInsert_overwrites(self, other) == Checked(Some(other))

\* The Option-like API.
CheckedOrInsert(self, other) == Checked(option_or(self.value, Some(other)))

\* Option::get_or_insert: the value left in place by the call.
CheckedGetOrInsert(self, val) ==
    Checked(IF is_some(self.value) THEN self.value ELSE Some(val))

\* Option::replace: the value left in place (the old one is returned).
CheckedReplace(self, other) == Checked(Some(other))

\* Option::take: the value left in place (the old one is returned).
CheckedTake(self) == Checked(None)

\* unwrap that substitutes zero for an absent value.
CheckedUnwrap_or_zero(self) ==
    Bare(IF is_some(self.value) THEN Unwrapped(self.value) ELSE 0)

CheckedUnwrap(self) ==
    IF is_some(self.value)
    THEN Bare(Unwrapped(self.value))
    ELSE Panic("called Option::unwrap() on a None value")

CheckedExpect(self) ==
    IF is_some(self.value) THEN Bare(Unwrapped(self.value)) ELSE Panic("msg")

CheckedUnwrapOr(self, default) ==
    Bare(IF is_some(self.value) THEN Unwrapped(self.value) ELSE default)

\* Option::as_ref / the pub field: the optional integer, borrowed.
CheckedAsRef(self) == Bare(self.value)

\* Ord::cmp of two integers.
cmp(a, b) == IF a < b THEN "Less" ELSE IF a = b THEN "Equal" ELSE "Greater"

\* PartialOrd of Option<T>: None is below every Some.
option_partial_cmp(o, p) ==
    IF is_some(o) /\ is_some(p) THEN Some(cmp(Unwrapped(o), Unwrapped(p)))
    ELSE IF is_some(o) THEN Some("Greater")
    ELSE IF is_some(p) THEN Some("Less")
    ELSE Some("Equal")

\* PartialEq<Option<T>> for Checked
CheckedEq(self, other) == Bare(self.value = other)

\* PartialOrd<Option<T>> for Checked
CheckedPartialCmp(self, other) == Bare(option_partial_cmp(self.value, other))

(***************************************************************************)
(* Wrapping<T>                                                             *)
(***************************************************************************)
Wrapping(n) == [value |-> n]

WrappingAdd(t, self, rhs) ==
    Wrapping(wrapping_add(t, self.value, OperandValue(rhs)))

WrappingSub(t, self, rhs) ==
    Wrapping(wrapping_sub(t, self.value, OperandValue(rhs)))

WrappingMul(t, self, rhs) ==
    Wrapping(wrapping_mul(t, self.value, OperandValue(rhs)))

WrappingNeg(t, self) == Wrapping(wrapping_neg(t, self.value))

WrappingDiv(t, self, rhs) ==
    IF OperandValue(rhs) = 0 THEN DivideByZero
    ELSE Wrapping(wrapping_div(t, self.value, OperandValue(rhs)))

WrappingRem(t, self, rhs) ==
    IF OperandValue(rhs) = 0 THEN DivideByZero
    ELSE Wrapping(wrapping_rem(t, self.value, OperandValue(rhs)))

WrappingDivEuclid(t, self, rhs) ==
    IF rhs.value = 0 THEN DivideByZero
    ELSE Wrapping(wrapping_div_euclid(t, self.value, rhs.value))

WrappingRemEuclid(t, self, rhs) ==
    IF rhs.value = 0 THEN DivideByZero
    ELSE Wrapping(wrapping_rem_euclid(t, self.value, rhs.value))

WrappingAbs(t, self) == Wrapping(wrapping_abs(t, self.value))

WrappingPow(t, self, exp) == Wrapping(wrapping_pow(t, self.value, exp))

\* Shl for Wrapping that masks any amount instead of converting it.
WrappingShl_masks_any_amount(t, self, rhs) ==
    Wrapping(wrapping_shl(t, self.value, OperandValue(rhs) % t.bits))

WrappingShl(t, self, rhs) ==
    LET n == try_into_u32(OperandValue(rhs))
    IN  IF is_some(n) THEN Wrapping(wrapping_shl(t, self.value, Unwrapped(n)))
        ELSE ShiftAmountPanic

WrappingShr(t, self, rhs) ==
    LET n == try_into_u32(OperandValue(rhs))
    IN  IF is_some(n) THEN Wrapping(wrapping_shr(t, self.value, Unwrapped(n)))
        ELSE ShiftAmountPanic

\* AsRef<T> / AsMut<T> for Wrapping, Saturating and Overflowing: a borrow of
\* the contained integer (the same three bodies, `&self.value`).
as_ref(self) == Bare(self.value)

\* An eq that takes a flagged Overflowing to be unequal to everything.
eq_unless_overflowed(self, other) ==
    Bare(/\ self.value = other
         /\ ~("has_overflowed" \in DOMAIN self /\ self.has_overflowed))

\* PartialEq<T> for Wrapping, Saturating and Overflowing (the same three
\* bodies, `self.value.eq(other)`).
eq(self, other) == Bare(self.value = other)

\* PartialOrd<T> for Wrapping, Saturating and Overflowing (the same three
\* bodies, `self.value.partial_cmp(other)`).
partial_cmp(self, other) == Bare(Some(cmp(self.value, other)))

(***************************************************************************)
(* Saturating<T>                                                           *)
(***************************************************************************)
Saturating(n) == [value |-> n]

\* Add for Saturating that defers to wrapping_add.
SaturatingAdd_wrapping(t, self, rhs) ==
    Saturating(wrapping_add(t, self.value, OperandValue(rhs)))

SaturatingAdd(t, self, rhs) ==
    Saturating(saturating_add(t, self.value, OperandValue(rhs)))

SaturatingSub(t, self, rhs) ==
    Saturating(saturating_sub(t, self.value, OperandValue(rhs)))

SaturatingMul(t, self, rhs) ==
    Saturating(saturating_mul(t, self.value, OperandValue(rhs)))

SaturatingPow(t, self, exp) == Saturating(saturating_pow(t, self.value, exp))

(***************************************************************************)
(* Overflowing<T>                                                          *)
(***************************************************************************)
Overflowing(n, f) == [value |-> n, has_overflowed |-> f]

\* A From<T> for Overflowing that flags the negative integers.
OverflowingFrom_flags_negative(n) == Overflowing(n, n < 0)

\* From<T> for Overflowing
OverflowingFrom(n) == Overflowing(n, FALSE)

\* apply that keeps the signal of the last operation only.
apply_last_signal(self, func) ==
    LET r == func[self.value]
    IN  Overflowing(r[1], r[2])

\* Overflowing::apply; the closure is a function on self.value.
apply(self, func) ==
    LET r == func[self.value]
    IN  Overflowing(r[1], self.has_overflowed \/ r[2])

\* bin_apply that drops the flag of the right operand.
bin_apply_ignores_rhs(self, rhs, func) ==
    LET r == func[<<self.value, rhs.value>>]
    IN  Overflowing(r[1], self.has_overflowed \/ r[2])

\* Overflowing::bin_apply; the closure is a function on <<self.value,
\* rhs.value>>.
bin_apply(self, rhs, func) ==
    LET r == func[<<self.value, rhs.value>>]
    IN  Overflowing(r[1], self.has_overflowed \/ rhs.has_overflowed \/ r[2])

OverflowingAdd(t, self, rhs) ==
    IF IsBare(rhs)
    THEN apply(self, [val \in {self.value} |-> overflowing_add(t, val, rhs.bare)])
    ELSE bin_apply(self, rhs,
             [p \in {<<self.value, rhs.value>>} |-> overflowing_add(t, p[1], p[2])])

OverflowingSub(t, self, rhs) ==
    IF IsBare(rhs)
    THEN apply(self, [val \in {self.value} |-> overflowing_sub(t, val, rhs.bare)])
    ELSE bin_apply(self, rhs,
             [p \in {<<self.value, rhs.value>>} |-> overflowing_sub(t, p[1], p[2])])

OverflowingMul(t, self, rhs) ==
    IF IsBare(rhs)
    THEN apply(self, [val \in {self.value} |-> overflowing_mul(t, val, rhs.bare)])
    ELSE bin_apply(self, rhs,
             [p \in {<<self.value, rhs.value>>} |-> overflowing_mul(t, p[1], p[2])])

OverflowingNeg(t, self) ==
    apply(self, [val \in {self.value} |-> overflowing_neg(t, val)])

OverflowingDiv(t, self, rhs) ==
    IF OperandValue(rhs) = 0 THEN DivideByZero
    ELSE IF IsBare(rhs)
    THEN apply(self, [val \in {self.value} |-> overflowing_div(t, val, rhs.bare)])
    ELSE bin_apply(self, rhs,
             [p \in {<<self.value, rhs.value>>} |-> overflowing_div(t, p[1], p[2])])

OverflowingRem(t, self, rhs) ==
    IF OperandValue(rhs) = 0 THEN DivideByZero
    ELSE IF IsBare(rhs)
    THEN apply(self, [val \in {self.value} |-> overflowing_rem(t, val, rhs.bare)])
    ELSE bin_apply(self, rhs,
             [p \in {<<self.value, rhs.value>>} |-> overflowing_rem(t, p[1], p[2])])

OverflowingDivEuclid(t, self, rhs) ==
    IF rhs.value = 0 THEN DivideByZero
    ELSE LET r == overflowing_div_euclid(t, self.value, rhs.value)
         IN  Overflowing(r[1],
                 self.has_overflowed \/ rhs.has_overflowed \/ r[2])

\* rem_euclid for Overflowing that reports a zero divisor through the flag.
OverflowingRemEuclid_flags_zero(t, self, rhs) ==
    IF rhs.value = 0 THEN Overflowing(self.value, TRUE)
    ELSE bin_apply(self, rhs,
             [p \in {<<self.value, rhs.value>>} |->
                 overflowing_rem_euclid(t, p[1], p[2])])

OverflowingRemEuclid(t, self, rhs) ==
    IF rhs.value = 0 THEN DivideByZero
    ELSE LET r == overflowing_rem_euclid(t, self.value, rhs.value)
         IN  Overflowing(r[1],
                 self.has_overflowed \/ rhs.has_overflowed \/ r[2])

OverflowingAbs(t, self) ==
    LET r == overflowing_abs(t, self.value)
    IN  Overflowing(r[1], self.has_overflowed \/ r[2])

OverflowingPow(t, self, exp) ==
    LET r == overflowing_pow(t, self.value, exp)
    IN  Overflowing(r[1], self.has_overflowed \/ r[2])

\* rval.try_into().expect(..) panics inside the closure.
OverflowingShl(t, self, rhs) ==
    LET n == try_into_u32(OperandValue(rhs))
    IN  IF ~is_some(n) THEN ShiftAmountPanic
        ELSE IF IsBare(rhs)
        THEN apply(self, [val \in {self.value} |->
                 overflowing_shl(t, val, Unwrapped(n))])
        ELSE bin_apply(self, rhs, [p \in {<<self.value, rhs.value>>} |->
                 overflowing_shl(t, p[1], Unwrapped(try_into_u32(p[2])))])

\* Shr<$t> (the bare amount) calls overflowing_shl; Shr<Overflowing<$t>>
\* calls overflowing_shr.
OverflowingShr(t, self, rhs) ==
    LET n == try_into_u32(OperandValue(rhs))
    IN  IF ~is_some(n) THEN ShiftAmountPanic
        ELSE IF IsBare(rhs)
        THEN apply(self, [val \in {self.value} |->
                 overflowing_shl(t, val, Unwrapped(n))])
        ELSE bin_apply(self, rhs, [p \in {<<self.value, rhs.value>>} |->
                 overflowing_shr(t, p[1], Unwrapped(try_into_u32(p[2])))])

(***************************************************************************)
(* The inputs: operands of each kind over the type t.                      *)
(***************************************************************************)
Kinds == {"Checked", "Wrapping", "Saturating", "Overflowing"}

\* The integers of the examples of the crate documentation (all i8).
DocInputs == {0, 2, 10, 20, 110, 120, MinValue(I8) + 10}

\* The integers the caller constructs wrappers from and passes as operands:
\* every value of the small types, the documented ones of i8.
Inputs(t) == IF t = I8 THEN DocInputs ELSE Range(t)

OptionInputs(t) == {None} \cup {Some(n) : n \in Inputs(t)}

BareOperands(t) == {Bare(n) : n \in Inputs(t)}

CheckedValues(t) == {Checked(o) : o \in OptionInputs(t)}

WrappingValues(t) == {Wrapping(n) : n \in Inputs(t)}

SaturatingValues(t) == {Saturating(n) : n \in Inputs(t)}

OverflowingValues(t) == {Overflowing(n, f) : n \in Inputs(t), f \in BOOLEAN}

\* A shift amount is of any integer type $t, bare or in a wrapper.
BareAmounts == {Bare(n) : n \in ShiftAmounts}

CheckedAmounts == {Checked(Some(n)) : n \in ShiftAmounts} \cup {Checked(None)}

WrappingAmounts == {Wrapping(n) : n \in ShiftAmounts}

OverflowingAmounts == {Overflowing(n, f) : n \in ShiftAmounts, f \in BOOLEAN}

(***************************************************************************)
(* The state machine.                                                      *)
(***************************************************************************)
NoCall == [op |-> "none"]

Ready == call.op = "none"

\* Construction: From<T> (Ensure::checked / wrapping / saturating defer to
\* it), From<Option<T>>, From<(T, bool)> and the derived Default.
Constructed(t, k) ==
    IF k = "Checked"
    THEN {<<[op |-> "from", rhs |-> Bare(n)], CheckedFrom(n)>> : n \in Inputs(t)}
         \cup {<<[op |-> "from_option", rhs |-> Checked(o)], Checked(o)>> :
                  o \in OptionInputs(t)}
         \cup {<<[op |-> "default"], CheckedDefault>>}
    ELSE IF k = "Wrapping"
    THEN {<<[op |-> "from", rhs |-> Bare(n)], Wrapping(n)>> : n \in Inputs(t)}
         \cup {<<[op |-> "default"], Wrapping(0)>>}
    ELSE IF k = "Saturating"
    THEN {<<[op |-> "from", rhs |-> Bare(n)], Saturating(n)>> : n \in Inputs(t)}
         \cup {<<[op |-> "default"], Saturating(0)>>}
    ELSE {<<[op |-> "from", rhs |-> Bare(n)], OverflowingFrom(n)>> :
             n \in Inputs(t)}
         \cup {<<[op |-> "from_pair", rhs |-> Overflowing(n, f)],
                 Overflowing(n, f)>> : n \in Inputs(t), f \in BOOLEAN}
         \cup {<<[op |-> "default"], Overflowing(0, FALSE)>>}

Init ==
    /\ ty \in Types \cup {I8}
    /\ kind \in Kinds
    /\ \E c \in Constructed(ty, kind) :
          /\ call = c[1]
          /\ cur = c[2]
          /\ res = c[2]

\* The caller is about to call an operator of its wrapper of kind k.
Calling(k) == Ready /\ kind = k

\* A call that takes self by value: the operand stays as it is (the wrappers
\* are Copy) and the value of the call is `result`.
Evaluate(op, rhs, result) ==
    /\ call' = [op |-> op, lhs |-> cur, rhs |-> rhs]
    /\ res' = result
    /\ UNCHANGED <<ty, kind, cur>>

EvaluateUnary(op, result) ==
    /\ call' = [op |-> op, lhs |-> cur]
    /\ res' = result
    /\ UNCHANGED <<ty, kind, cur>>

\* A call that takes &mut self: it leaves `place` in the operand and
\* returns `result`.
Mutate(op, rhs, place, result) ==
    /\ call' = [op |-> op, lhs |-> cur, rhs |-> rhs]
    /\ cur' = place
    /\ res' = result
    /\ UNCHANGED <<ty, kind>>

(* Checked *)
CheckedAddOp ==
    /\ Calling("Checked")
    /\ \E rhs \in BareOperands(ty) \cup CheckedValues(ty) :
           Evaluate("add", rhs, CheckedAdd(ty, cur, rhs))

CheckedSubOp ==
    /\ Calling("Checked")
    /\ \E rhs \in BareOperands(ty) \cup CheckedValues(ty) :
           Evaluate("sub", rhs, CheckedSub(ty, cur, rhs))

CheckedMulOp ==
    /\ Calling("Checked")
    /\ \E rhs \in BareOperands(ty) \cup CheckedValues(ty) :
           Evaluate("mul", rhs, CheckedMul(ty, cur, rhs))

CheckedDivOp ==
    /\ Calling("Checked")
    /\ \E rhs \in BareOperands(ty) \cup CheckedValues(ty) :
           Evaluate("div", rhs, CheckedDiv(ty, cur, rhs))

CheckedRemOp ==
    /\ Calling("Checked")
    /\ \E rhs \in BareOperands(ty) \cup CheckedValues(ty) :
           Evaluate("rem", rhs, CheckedRem(ty, cur, rhs))

CheckedNegOp ==
    /\ Calling("Checked")
    /\ ty.signed
    /\ EvaluateUnary("neg", CheckedNeg(ty, cur))

CheckedDivEuclidOp ==
    /\ Calling("Checked")
    /\ \E rhs \in CheckedValues(ty) :
           Evaluate("div_euclid", rhs, CheckedDivEuclid(ty, cur, rhs))

CheckedRemEuclidOp ==
    /\ Calling("Checked")
    /\ \E rhs \in CheckedValues(ty) :
           Evaluate("rem_euclid", rhs, CheckedRemEuclid(ty, cur, rhs))

CheckedAbsOp ==
    /\ Calling("Checked")
    /\ ty.signed
    /\ EvaluateUnary("abs", CheckedAbs(ty, cur))

CheckedPowOp ==
    /\ Calling("Checked")
    /\ \E exp \in Exponents :
           Evaluate("pow", Bare(exp), CheckedPow(ty, cur, exp))

CheckedShlOp ==
    /\ Calling("Checked")
    /\ \E rhs \in BareAmounts \cup CheckedAmounts :
           Evaluate("shl", rhs, CheckedShl(ty, cur, rhs))

CheckedShrOp ==
    /\ Calling("Checked")
    /\ \E rhs \in BareAmounts \cup CheckedAmounts :
           Evaluate("shr", rhs, CheckedShr(ty, cur, rhs))

CheckedOrInsertOp ==
    /\ Calling("Checked")
    /\ \E v \in Inputs(ty) :
           Evaluate("or_insert", Bare(v), CheckedOrInsert(cur, v))

CheckedGetOrInsertOp ==
    /\ Calling("Checked")
    /\ \E v \in Inputs(ty) :
           Mutate("get_or_insert", Bare(v), CheckedGetOrInsert(cur, v),
                  Bare(Unwrapped(CheckedGetOrInsert(cur, v).value)))

CheckedReplaceOp ==
    /\ Calling("Checked")
    /\ \E v \in Inputs(ty) :
           Mutate("replace", Bare(v), CheckedReplace(cur, v), cur)

CheckedTakeOp ==
    /\ Calling("Checked")
    /\ call' = [op |-> "take", lhs |-> cur]
    /\ cur' = CheckedTake(cur)
    /\ res' = cur
    /\ UNCHANGED <<ty, kind>>

CheckedUnwrapOp ==
    /\ Calling("Checked")
    /\ EvaluateUnary("unwrap", CheckedUnwrap(cur))

CheckedExpectOp ==
    /\ Calling("Checked")
    /\ EvaluateUnary("expect", CheckedExpect(cur))

CheckedUnwrapOrOp ==
    /\ Calling("Checked")
    /\ \E d \in Inputs(ty) :
           Evaluate("unwrap_or", Bare(d), CheckedUnwrapOr(cur, d))

CheckedAsRefOp ==
    /\ Calling("Checked")
    /\ EvaluateUnary("as_ref", CheckedAsRef(cur))

CheckedEqOp ==
    /\ Calling("Checked")
    /\ \E other \in OptionInputs(ty) :
           Evaluate("eq", Bare(other), CheckedEq(cur, other))

CheckedPartialCmpOp ==
    /\ Calling("Checked")
    /\ \E other \in OptionInputs(ty) :
           Evaluate("partial_cmp", Bare(other), CheckedPartialCmp(cur, other))

(* Wrapping *)
WrappingAddOp ==
    /\ Calling("Wrapping")
    /\ \E rhs \in BareOperands(ty) \cup WrappingValues(ty) :
           Evaluate("add", rhs, WrappingAdd(ty, cur, rhs))

WrappingSubOp ==
    /\ Calling("Wrapping")
    /\ \E rhs \in BareOperands(ty) \cup WrappingValues(ty) :
           Evaluate("sub", rhs, WrappingSub(ty, cur, rhs))

WrappingMulOp ==
    /\ Calling("Wrapping")
    /\ \E rhs \in BareOperands(ty) \cup WrappingValues(ty) :
           Evaluate("mul", rhs, WrappingMul(ty, cur, rhs))

WrappingDivOp ==
    /\ Calling("Wrapping")
    /\ \E rhs \in BareOperands(ty) \cup WrappingValues(ty) :
           Evaluate("div", rhs, WrappingDiv(ty, cur, rhs))

WrappingRemOp ==
    /\ Calling("Wrapping")
    /\ \E rhs \in BareOperands(ty) \cup WrappingValues(ty) :
           Evaluate("rem", rhs, WrappingRem(ty, cur, rhs))

WrappingNegOp ==
    /\ Calling("Wrapping")
    /\ ty.signed
    /\ EvaluateUnary("neg", WrappingNeg(ty, cur))

WrappingDivEuclidOp ==
    /\ Calling("Wrapping")
    /\ \E rhs \in WrappingValues(ty) :
           Evaluate("div_euclid", rhs,
                    WrappingDivEuclid(ty, cur, rhs))

WrappingRemEuclidOp ==
    /\ Calling("Wrapping")
    /\ \E rhs \in WrappingValues(ty) :
           Evaluate("rem_euclid", rhs,
                    WrappingRemEuclid(ty, cur, rhs))

WrappingAbsOp ==
    /\ Calling("Wrapping")
    /\ ty.signed
    /\ EvaluateUnary("abs", WrappingAbs(ty, cur))

WrappingPowOp ==
    /\ Calling("Wrapping")
    /\ \E exp \in Exponents :
           Evaluate("pow", Bare(exp), WrappingPow(ty, cur, exp))

WrappingShlOp ==
    /\ Calling("Wrapping")
    /\ \E rhs \in BareAmounts \cup WrappingAmounts :
           Evaluate("shl", rhs, WrappingShl(ty, cur, rhs))

WrappingShrOp ==
    /\ Calling("Wrapping")
    /\ \E rhs \in BareAmounts \cup WrappingAmounts :
           Evaluate("shr", rhs, WrappingShr(ty, cur, rhs))

WrappingAsRefOp ==
    /\ Calling("Wrapping")
    /\ EvaluateUnary("as_ref", as_ref(cur))

WrappingEqOp ==
    /\ Calling("Wrapping")
    /\ \E other \in Inputs(ty) :
           Evaluate("eq", Bare(other), eq(cur, other))

WrappingPartialCmpOp ==
    /\ Calling("Wrapping")
    /\ \E other \in Inputs(ty) :
           Evaluate("partial_cmp", Bare(other), partial_cmp(cur, other))

(* Saturating *)
SaturatingAddOp ==
    /\ Calling("Saturating")
    /\ \E rhs \in BareOperands(ty) \cup SaturatingValues(ty) :
           Evaluate("add", rhs, SaturatingAdd(ty, cur, rhs))

SaturatingSubOp ==
    /\ Calling("Saturating")
    /\ \E rhs \in BareOperands(ty) \cup SaturatingValues(ty) :
           Evaluate("sub", rhs, SaturatingSub(ty, cur, rhs))

SaturatingMulOp ==
    /\ Calling("Saturating")
    /\ \E rhs \in BareOperands(ty) \cup SaturatingValues(ty) :
           Evaluate("mul", rhs, SaturatingMul(ty, cur, rhs))

SaturatingPowOp ==
    /\ Calling("Saturating")
    /\ \E exp \in Exponents :
           Evaluate("pow", Bare(exp), SaturatingPow(ty, cur, exp))

SaturatingAsRefOp ==
    /\ Calling("Saturating")
    /\ EvaluateUnary("as_ref", as_ref(cur))

SaturatingEqOp ==
    /\ Calling("Saturating")
    /\ \E other \in Inputs(ty) :
           Evaluate("eq", Bare(other), eq(cur, other))

SaturatingPartialCmpOp ==
    /\ Calling("Saturating")
    /\ \E other \in Inputs(ty) :
           Evaluate("partial_cmp", Bare(other), partial_cmp(cur, other))

(* Overflowing *)
OverflowingAddOp ==
    /\ Calling("Overflowing")
    /\ \E rhs \in BareOperands(ty) \cup OverflowingValues(ty) :
           Evaluate("add", rhs, OverflowingAdd(ty, cur, rhs))

OverflowingSubOp ==
    /\ Calling("Overflowing")
    /\ \E rhs \in BareOperands(ty) \cup OverflowingValues(ty) :
           Evaluate("sub", rhs, OverflowingSub(ty, cur, rhs))

OverflowingMulOp ==
    /\ Calling("Overflowing")
    /\ \E rhs \in BareOperands(ty) \cup OverflowingValues(ty) :
           Evaluate("mul", rhs, OverflowingMul(ty, cur, rhs))

OverflowingDivOp ==
    /\ Calling("Overflowing")
    /\ \E rhs \in BareOperands(ty) \cup OverflowingValues(ty) :
           Evaluate("div", rhs, OverflowingDiv(ty, cur, rhs))

OverflowingRemOp ==
    /\ Calling("Overflowing")
    /\ \E rhs \in BareOperands(ty) \cup OverflowingValues(ty) :
           Evaluate("rem", rhs, OverflowingRem(ty, cur, rhs))

OverflowingNegOp ==
    /\ Calling("Overflowing")
    /\ ty.signed
    /\ EvaluateUnary("neg", OverflowingNeg(ty, cur))

OverflowingDivEuclidOp ==
    /\ Calling("Overflowing")
    /\ \E rhs \in OverflowingValues(ty) :
           Evaluate("div_euclid", rhs,
                    OverflowingDivEuclid(ty, cur, rhs))

OverflowingRemEuclidOp ==
    /\ Calling("Overflowing")
    /\ \E rhs \in OverflowingValues(ty) :
           Evaluate("rem_euclid", rhs,
                    OverflowingRemEuclid(ty, cur, rhs))

OverflowingAbsOp ==
    /\ Calling("Overflowing")
    /\ ty.signed
    /\ EvaluateUnary("abs", OverflowingAbs(ty, cur))

OverflowingPowOp ==
    /\ Calling("Overflowing")
    /\ \E exp \in Exponents :
           Evaluate("pow", Bare(exp), OverflowingPow(ty, cur, exp))

OverflowingShlOp ==
    /\ Calling("Overflowing")
    /\ \E rhs \in BareAmounts \cup OverflowingAmounts :
           Evaluate("shl", rhs, OverflowingShl(ty, cur, rhs))

OverflowingShrOp ==
    /\ Calling("Overflowing")
    /\ \E rhs \in BareAmounts \cup OverflowingAmounts :
           Evaluate("shr", rhs, OverflowingShr(ty, cur, rhs))

OverflowingAsRefOp ==
    /\ Calling("Overflowing")
    /\ EvaluateUnary("as_ref", as_ref(cur))

OverflowingEqOp ==
    /\ Calling("Overflowing")
    /\ \E other \in Inputs(ty) :
           Evaluate("eq", Bare(other), eq(cur, other))

OverflowingPartialCmpOp ==
    /\ Calling("Overflowing")
    /\ \E other \in Inputs(ty) :
           Evaluate("partial_cmp", Bare(other), partial_cmp(cur, other))

(* The caller *)
\* `*self = *self op rhs` (the op-assign forms), `let x = x op rhs`: the
\* result becomes the operand of the calls that follow.
Assign ==
    /\ ~Ready
    /\ ~Panicked(res)
    /\ ~IsBare(res)
    /\ cur' = res
    /\ call' = NoCall
    /\ UNCHANGED <<ty, kind, res>>

\* The result is dropped; the operand (Copy) is used again.
Discard ==
    /\ ~Ready
    /\ ~Panicked(res)
    /\ res' = cur
    /\ call' = NoCall
    /\ UNCHANGED <<ty, kind, cur>>

Next ==
    \/ CheckedAddOp \/ CheckedSubOp \/ CheckedMulOp \/ CheckedDivOp
    \/ CheckedRemOp \/ CheckedNegOp \/ CheckedDivEuclidOp
    \/ CheckedRemEuclidOp \/ CheckedAbsOp \/ CheckedPowOp
    \/ CheckedShlOp \/ CheckedShrOp
    \/ CheckedOrInsertOp \/ CheckedGetOrInsertOp \/ CheckedReplaceOp
    \/ CheckedTakeOp \/ CheckedUnwrapOp \/ CheckedExpectOp
    \/ CheckedUnwrapOrOp
    \/ WrappingAddOp \/ WrappingSubOp \/ WrappingMulOp \/ WrappingDivOp
    \/ WrappingRemOp \/ WrappingNegOp \/ WrappingDivEuclidOp
    \/ WrappingRemEuclidOp \/ WrappingAbsOp \/ WrappingPowOp
    \/ WrappingShlOp \/ WrappingShrOp
    \/ SaturatingAddOp \/ SaturatingSubOp \/ SaturatingMulOp
    \/ SaturatingPowOp
    \/ OverflowingAddOp \/ OverflowingSubOp \/ OverflowingMulOp
    \/ OverflowingDivOp \/ OverflowingRemOp \/ OverflowingNegOp
    \/ OverflowingDivEuclidOp \/ OverflowingRemEuclidOp
    \/ OverflowingAbsOp \/ OverflowingPowOp
    \/ OverflowingShlOp \/ OverflowingShrOp
    \/ WrappingAsRefOp \/ SaturatingAsRefOp \/ OverflowingAsRefOp
    \/ CheckedAsRefOp \/ CheckedEqOp \/ CheckedPartialCmpOp
    \/ WrappingEqOp \/ WrappingPartialCmpOp
    \/ SaturatingEqOp \/ SaturatingPartialCmpOp
    \/ OverflowingEqOp \/ OverflowingPartialCmpOp
    \/ Assign \/ Discard

Spec == Init /\ [][Next]_vars

(***************************************************************************)
(* Vocabulary of the properties.                                           *)
(***************************************************************************)
ArithmeticOps ==
    {"add", "sub", "mul", "div", "rem", "neg", "shl", "shr",
     "div_euclid", "rem_euclid", "abs", "pow"}

\* The operators that take a right operand which may itself be a wrapper.
BinaryOps ==
    {"add", "sub", "mul", "div", "rem", "shl", "shr",
     "div_euclid", "rem_euclid"}

Absent(w) == ~is_some(w.value)

\* The integer a wrapper of the current kind holds (a present one, if Checked).
ValueOf(w) == IF kind = "Checked" THEN Unwrapped(w.value) ELSE w.value

\* The integer of the right operand of the call, bare or wrapped.
RhsInt == IF IsBare(call.rhs) THEN call.rhs.bare ELSE ValueOf(call.rhs)

\* A wrapper as construction from a bare integer leaves it.
Fresh(w) ==
    CASE kind = "Checked" -> is_some(w.value)
      [] kind = "Overflowing" -> ~w.has_overflowed
      [] OTHER -> TRUE

\* The result of +, -, * over the integers.
Exact(op, a, b) ==
    CASE op = "add" -> a + b
      [] op = "sub" -> a - b
      [] op = "mul" -> a * b

RECURSIVE ExactPow(_, _)
ExactPow(a, n) == IF n <= 0 THEN 1 ELSE a * ExactPow(a, n - 1)

\* Whether the operation itself overflows on the integers a and b (b is the
\* right operand, the exponent or the shift amount; unused by neg and abs).
Signal(t, op, a, b) ==
    CASE op \in {"add", "sub", "mul"} -> ~InRange(t, Exact(op, a, b))
      [] op = "neg" -> ~InRange(t, -a)
      [] op = "abs" -> ~InRange(t, AbsInt(a))
      [] op = "pow" -> ~InRange(t, ExactPow(a, b))
      [] op \in {"div", "rem", "div_euclid", "rem_euclid"} ->
             t.signed /\ a = MinValue(t) /\ b = -1
      [] op \in {"shl", "shr"} -> b >= t.bits

\* v is the representative of e modulo 2^bits in the range of t.
Congruent(t, v, e) == InRange(t, v) /\ (v - e) % Pow2(t.bits) = 0

(***************************************************************************)
(* C1  Absorption.  An arithmetic operator of Checked whose left operand   *)
(* is absent returns absent, whatever the right operand; a binary one      *)
(* whose right operand is an absent Checked returns absent; so along any   *)
(* run of arithmetic calls an absent operand never becomes present.        *)
(***************************************************************************)
C1_AbsentOperandGivesAbsent ==
    (kind = "Checked" /\ call.op \in ArithmeticOps) =>
        /\ Absent(call.lhs) => (~Panicked(res) /\ Absent(res))
        /\ (/\ call.op \in BinaryOps
            /\ ~IsBare(call.rhs)
            /\ Absent(call.rhs)) => (~Panicked(res) /\ Absent(res))

C1_AbsentStaysAbsent ==
    (/\ kind = "Checked"
     /\ Absent(cur)
     /\ call.op \in ArithmeticOps \cup {"none"}
     /\ call'.op \in ArithmeticOps \cup {"none"}) => Absent(cur')

\* C1: an absent Checked operand makes every arithmetic result absent, and
\* no sequence of arithmetic calls brings an absent Checked back to present.
C1_Absorption == []C1_AbsentOperandGivesAbsent /\ [][C1_AbsentStaysAbsent]_vars

\* The documented `(invalid - 2).is_none()` on i8.
C1_Witness ==
    /\ kind = "Checked"
    /\ ty = I8
    /\ call.op = "sub"
    /\ call.lhs = Checked(None)
    /\ call.rhs = Bare(2)
    /\ res = Checked(None)

(***************************************************************************)
(* C2  Where a + b is representable, the four policies agree on it.        *)
(***************************************************************************)
\* C2: for freshly constructed operands a, b of any kind with a + b in the
\* range of T, Checked gives present a + b, Wrapping and Saturating give
\* a + b, Overflowing gives a + b with has_overflowed = false.
C2_PoliciesAgreeWithoutOverflow ==
    (/\ call.op = "add"
     /\ ~IsBare(call.rhs)
     /\ Fresh(call.lhs)
     /\ Fresh(call.rhs)) =>
        LET a == ValueOf(call.lhs)
            b == ValueOf(call.rhs)
        IN  InRange(ty, a + b) =>
              /\ res = (CASE kind = "Checked" -> Checked(Some(a + b))
                          [] kind = "Overflowing" -> Overflowing(a + b, FALSE)
                          [] OTHER -> [value |-> a + b])
              /\ CheckedAdd(ty, CheckedFrom(a), CheckedFrom(b))
                     = Checked(Some(a + b))
              /\ WrappingAdd(ty, Wrapping(a), Wrapping(b)) = Wrapping(a + b)
              /\ SaturatingAdd(ty, Saturating(a), Saturating(b))
                     = Saturating(a + b)
              /\ OverflowingAdd(ty, OverflowingFrom(a), OverflowingFrom(b))
                     = Overflowing(a + b, FALSE)

\* An addition that reaches MAX exactly, without overflow.
C2_Witness ==
    /\ kind = "Overflowing"
    /\ call.op = "add"
    /\ ~IsBare(call.rhs)
    /\ Fresh(call.lhs)
    /\ Fresh(call.rhs)
    /\ call.lhs.value > 0
    /\ call.rhs.value > 0
    /\ call.lhs.value + call.rhs.value = MaxValue(ty)
    /\ res = Overflowing(MaxValue(ty), FALSE)

(***************************************************************************)
(* C3  Checked +, -, * on present operands: exact, or absent.              *)
(***************************************************************************)
\* C3: for present Checked operands (the right one bare or Checked) and
\* op in {+, -, *} the result is present with the exact result when that is
\* in the range of T and absent otherwise.
C3_CheckedExactOrAbsent ==
    (/\ kind = "Checked"
     /\ call.op \in {"add", "sub", "mul"}
     /\ ~Absent(call.lhs)
     /\ (IsBare(call.rhs) \/ ~Absent(call.rhs))) =>
        LET e == Exact(call.op, ValueOf(call.lhs), RhsInt)
        IN  IF MinValue(ty) <= e /\ e <= MaxValue(ty)
            THEN res = Checked(Some(e))
            ELSE res = Checked(None)

\* A product past MAX that wrapping would bring back into the range.
C3_Witness ==
    /\ kind = "Checked"
    /\ call.op = "mul"
    /\ call.lhs = Checked(Some(MaxValue(ty)))
    /\ call.rhs = Checked(Some(2))
    /\ res = Checked(None)

(***************************************************************************)
(* C4  Saturating + and - clamp to the edge in the direction of overflow.  *)
(***************************************************************************)
\* C4: when the exact sum or difference is above MAX the Saturating result
\* is MAX, when it is below MIN the result is MIN; a Saturating result is
\* always in the range of T and, on overflow, is not the wrapped value.
C4_SaturatingClamps ==
    /\ (kind = "Saturating" /\ call.op \in {"add", "sub"}) =>
          LET e == Exact(call.op, call.lhs.value, RhsInt)
          IN  /\ e > MaxValue(ty) => res.value = MaxValue(ty)
              /\ e < MinValue(ty) => res.value = MinValue(ty)
              /\ (e > MaxValue(ty) \/ e < MinValue(ty)) =>
                     ~Congruent(ty, res.value, e)
    /\ (kind = "Saturating" /\ call.op \in ArithmeticOps) =>
          (MinValue(ty) <= res.value /\ res.value <= MaxValue(ty))

\* The documented `(i8::min_value() + 10).saturating() - 20`.
C4_Witness ==
    /\ kind = "Saturating"
    /\ ty = I8
    /\ call.op = "sub"
    /\ call.lhs = Saturating(MinValue(I8) + 10)
    /\ call.rhs = Bare(20)
    /\ res = Saturating(MinValue(I8))

(***************************************************************************)
(* C5  Overflowing +, -, * on overflow: flag set, value wrapped.           *)
(***************************************************************************)
\* C5: when the exact result of +, - or * is outside the range of T, the
\* Overflowing result has has_overflowed = true and its value is the exact
\* result reduced modulo 2^bits into the range of T.
C5_OverflowingWrapsAndFlags ==
    (kind = "Overflowing" /\ call.op \in {"add", "sub", "mul"}) =>
        LET e == Exact(call.op, call.lhs.value, RhsInt)
        IN  (e > MaxValue(ty) \/ e < MinValue(ty)) =>
              /\ res.has_overflowed
              /\ Congruent(ty, res.value, e)

\* A product of two unflagged operands that leaves the range.
C5_Witness ==
    /\ kind = "Overflowing"
    /\ call.op = "mul"
    /\ call.lhs = Overflowing(MinValue(ty) + 1, FALSE)
    /\ call.rhs = Overflowing(2, FALSE)
    /\ ty.signed
    /\ res = Overflowing(2, TRUE)

(***************************************************************************)
(* C6  Wrapping + is addition modulo 2^bits and never fails.               *)
(***************************************************************************)
\* C6: for every type, signed or unsigned, Wrapping(a) + Wrapping(b) and
\* Wrapping(a) + b hold the exact sum reduced modulo 2^bits into the range
\* of T and do not panic; on i8, 120 + 10 = -126 and then - 20 = 110.
C6_WrappingAddIsModular ==
    /\ (kind = "Wrapping" /\ call.op = "add") =>
          /\ ~Panicked(res)
          /\ Congruent(ty, res.value, call.lhs.value + RhsInt)
    /\ (/\ kind = "Wrapping"
        /\ ty = I8
        /\ call.op = "add"
        /\ call.lhs = Wrapping(120)
        /\ RhsInt = 10) => res = Wrapping(-126)
    /\ (/\ kind = "Wrapping"
        /\ ty = I8
        /\ call.op = "sub"
        /\ call.lhs = Wrapping(-126)
        /\ RhsInt = 20) => res = Wrapping(110)

\* The documented `120i8.wrapping() + 10`.
C6_Witness ==
    /\ kind = "Wrapping"
    /\ ty = I8
    /\ call.op = "add"
    /\ call.lhs = Wrapping(120)
    /\ call.rhs = Bare(10)
    /\ res = Wrapping(-126)

(***************************************************************************)
(* C7  The flag of Overflowing is sticky.                                  *)
(***************************************************************************)
C7_FlaggedOperandGivesFlaggedResult ==
    (kind = "Overflowing" /\ call.op \in ArithmeticOps /\ ~Panicked(res)) =>
        ((\/ call.lhs.has_overflowed
          \/ (/\ call.op \in BinaryOps
              /\ ~IsBare(call.rhs)
              /\ call.rhs.has_overflowed)) => res.has_overflowed)

C7_FlagIsNeverCleared ==
    (kind = "Overflowing" /\ cur.has_overflowed) => cur'.has_overflowed

\* C7: every arithmetic operator of Overflowing that has an operand with
\* has_overflowed = true returns has_overflowed = true, and along any run
\* of arithmetic calls a set flag is never cleared.
C7_FlagIsSticky ==
    []C7_FlaggedOperandGivesFlaggedResult /\ [][C7_FlagIsNeverCleared]_vars

\* A flagged operand and a subtraction that does not itself overflow.
C7_Witness ==
    /\ kind = "Overflowing"
    /\ call.op = "sub"
    /\ call.lhs = Overflowing(1, TRUE)
    /\ call.rhs = Bare(1)
    /\ res = Overflowing(0, TRUE)

(***************************************************************************)
(* C8  The result flag is the OR of the operand flags and the signal.      *)
(***************************************************************************)
\* C8: the flag of the result of an Overflowing operator is exactly
\* (left flag) OR (right flag, if the right operand is an Overflowing) OR
\* (this operation overflowed); a bare right operand, an exponent and the
\* unary operators contribute no right flag.
C8_FlagIsOrOfFlagsAndSignal ==
    (kind = "Overflowing" /\ call.op \in ArithmeticOps /\ ~Panicked(res)) =>
        LET unary == call.op \in {"neg", "abs"}
            b == IF unary THEN 0 ELSE OperandValue(call.rhs)
            rflag == /\ ~unary
                     /\ ~IsBare(call.rhs)
                     /\ call.rhs.has_overflowed
        IN  res.has_overflowed =
                (\/ call.lhs.has_overflowed
                 \/ rflag
                 \/ Signal(ty, call.op, call.lhs.value, b))

\* The flag of the right operand is the only source of the result's flag.
C8_Witness ==
    /\ kind = "Overflowing"
    /\ call.op = "mul"
    /\ call.lhs = Overflowing(1, FALSE)
    /\ call.rhs = Overflowing(2, TRUE)
    /\ res = Overflowing(2, TRUE)

(***************************************************************************)
(* C9  Saturating stays pinned at an edge and moves away from the edge     *)
(* value only.                                                             *)
(***************************************************************************)
C9_PinnedAtTheEdge ==
    (kind = "Saturating" /\ call.op \in {"add", "sub"}) =>
        LET k == RhsInt
        IN  /\ (call.op = "add" /\ call.lhs.value = MaxValue(ty) /\ k >= 0)
                   => res.value = MaxValue(ty)
            /\ (call.op = "sub" /\ call.lhs.value = MinValue(ty) /\ k >= 0)
                   => res.value = MinValue(ty)
            /\ (call.op = "sub" /\ call.lhs.value = MaxValue(ty) /\ k >= 0)
                   => res.value = MaxValue(ty) - k
            /\ (call.op = "add" /\ call.lhs.value = MinValue(ty) /\ k >= 0)
                   => res.value = MinValue(ty) + k

C9_ClampingKeepsOnlyTheEdge ==
    (/\ kind = "Saturating"
     /\ call.op \in {"add", "sub"}
     /\ ~InRange(ty, Exact(call.op, call.lhs.value, RhsInt))
     /\ call'.op = "none"
     /\ cur' = res) =>
        cur'.value =
            (IF Exact(call.op, call.lhs.value, RhsInt) > MaxValue(ty)
             THEN MaxValue(ty) ELSE MinValue(ty))

\* C9: Saturating(MAX) + k = MAX and Saturating(MIN) - k = MIN for k >= 0;
\* what an overflowing + or - leaves behind is the edge itself, and from
\* the edge a step of k >= 0 in the reverse direction gives edge - k
\* (from MAX) or edge + k (from MIN).
C9_SaturatingPinning ==
    []C9_PinnedAtTheEdge /\ [][C9_ClampingKeepsOnlyTheEdge]_vars

\* On i8, after 110 + 20 was clamped to 127: 127 - 20 = 107.
C9_Witness ==
    /\ kind = "Saturating"
    /\ ty = I8
    /\ call.op = "sub"
    /\ call.lhs = Saturating(MaxValue(I8))
    /\ call.rhs = Bare(20)
    /\ res = Saturating(MaxValue(I8) - 20)

(***************************************************************************)
(* C10  Checked returns to present only by an explicit reset.              *)
(***************************************************************************)
\* The calls that are not arithmetic and can put a value in place.
ResetOps == {"or_insert", "get_or_insert", "replace", "take"}

C10_ResetResults ==
    kind = "Checked" =>
        /\ call.op = "or_insert" =>
               res = (IF Absent(call.lhs) THEN Checked(Some(call.rhs.bare))
                      ELSE call.lhs)
        /\ call.op = "replace" => cur = Checked(Some(call.rhs.bare))
        /\ call.op = "get_or_insert" =>
               /\ ~Absent(cur)
               /\ cur = (IF Absent(call.lhs) THEN Checked(Some(call.rhs.bare))
                         ELSE call.lhs)
        /\ (ty = I8 /\ call.op = "sub" /\ call.lhs = Checked(Some(120))
               /\ call.rhs = Bare(10)) => res = Checked(Some(110))
        /\ (ty = I8 /\ call.op = "add" /\ call.lhs = Checked(Some(120))
               /\ call.rhs = Bare(20)) => res = Checked(None)
        /\ (ty = I8 /\ call.op = "sub" /\ call.lhs = Checked(None)
               /\ call.rhs = Bare(2)) => res = Checked(None)
        /\ (ty = I8 /\ call.op = "or_insert" /\ call.lhs = Checked(None)
               /\ call.rhs = Bare(0)) => res = Checked(Some(0))
        /\ (call.op \in {"add", "sub", "mul"} /\ call.lhs = Checked(Some(0))
               /\ IsBare(call.rhs)) =>
               res = Checked(Some(Exact(call.op, 0, call.rhs.bare))
                                 \cap Range(ty))

C10_PresentOnlyByReset ==
    (kind = "Checked" /\ Absent(cur) /\ ~Absent(cur')) =>
        \/ call'.op \in {"replace", "get_or_insert"}
        \/ (call.op \in ResetOps /\ call'.op = "none")

\* C10: or_insert(v) gives present v on an absent value and leaves a present
\* one unchanged; replace(v) leaves present v; get_or_insert(v) leaves the
\* value present, v only if it was absent; an absent operand becomes
\* present only by one of these calls (or by binding a taken value again),
\* never by arithmetic, and after the reset arithmetic works on the value.
C10_CheckedReset == []C10_ResetResults /\ [][C10_PresentOnlyByReset]_vars

\* The documented `invalid.or_insert(0)` on i8.
C10_Witness ==
    /\ kind = "Checked"
    /\ ty = I8
    /\ call.op = "or_insert"
    /\ call.lhs = Checked(None)
    /\ call.rhs = Bare(0)
    /\ res = Checked(Some(0))

(***************************************************************************)
(* C11  Checked division and remainder by zero: absent, never fatal.       *)
(***************************************************************************)
DivisionOps == {"div", "rem", "div_euclid", "rem_euclid"}

EuclidOps == {"div_euclid", "rem_euclid"}

\* The right operand of the call is zero, bare or in a present Checked.
CheckedZeroDivisor == call.rhs = Bare(0) \/ call.rhs = Checked(Some(0))

\* C11: for a present Checked dividend and a zero divisor (bare or present
\* Checked), /, %, div_euclid and rem_euclid all return an absent Checked
\* and none of them panics.
C11_CheckedDivisionByZeroIsAbsent ==
    (/\ kind = "Checked"
     /\ call.op \in DivisionOps
     /\ ~Absent(call.lhs)
     /\ CheckedZeroDivisor) => (~Panicked(res) /\ res = Checked(None))

\* A present dividend, Euclidean division by a present zero.
C11_Witness ==
    /\ kind = "Checked"
    /\ call.op = "div_euclid"
    /\ call.lhs = Checked(Some(1))
    /\ call.rhs = Checked(Some(0))
    /\ res = Checked(None)

(***************************************************************************)
(* C12  Checked Euclidean division and remainder by zero.                  *)
(***************************************************************************)
\* C12 as stated: Checked div_euclid and rem_euclid panic when the divisor
\* is exactly zero (the dividend being present).
C12_CheckedEuclidByZeroPanics ==
    (/\ kind = "Checked"
     /\ call.op \in EuclidOps
     /\ ~Absent(call.lhs)
     /\ call.rhs = Checked(Some(0))) => Panicked(res)

\* C12, amended: Checked div_euclid and rem_euclid never panic; with a
\* present dividend and a divisor of exactly zero they return absent, the
\* same result as ordinary Checked division and remainder by that zero.
C12_CheckedEuclidByZeroIsAbsent ==
    (kind = "Checked" /\ call.op \in EuclidOps) =>
        /\ ~Panicked(res)
        /\ (~Absent(call.lhs) /\ call.rhs = Checked(Some(0))) =>
               /\ res = Checked(None)
               /\ res = CheckedDiv(ty, call.lhs, call.rhs)
               /\ res = CheckedRem(ty, call.lhs, call.rhs)

\* A present dividend, Euclidean remainder by a present zero.
C12_Witness ==
    /\ kind = "Checked"
    /\ call.op = "rem_euclid"
    /\ call.lhs = Checked(Some(MaxValue(ty)))
    /\ call.rhs = Checked(Some(0))
    /\ res = Checked(None)

(***************************************************************************)
(* C13  Wrapping and Overflowing division and remainder by zero panic.     *)
(***************************************************************************)
C13_ZeroDivisorPanics ==
    (/\ kind \in {"Wrapping", "Overflowing"}
     /\ call.op \in DivisionOps
     /\ OperandValue(call.rhs) = 0) =>
        (Panicked(res) /\ DOMAIN res = {"panic"})

\* A panic ends the run: no step is taken from a state whose call panicked,
\* so the panicking call leaves no value and no flag behind.
C13_NothingFollowsAPanic == ~Panicked(res)

\* C13: for Wrapping and Overflowing, /, %, div_euclid and rem_euclid with a
\* zero divisor, bare or wrapped, panic; the call produces no value and no
\* flag, and nothing is computed after it.
C13_DivisionByZeroIsFatal ==
    []C13_ZeroDivisorPanics /\ [][C13_NothingFollowsAPanic]_vars

\* Euclidean remainder of an Overflowing by a wrapped zero.
C13_Witness ==
    /\ kind = "Overflowing"
    /\ call.op = "rem_euclid"
    /\ call.lhs = Overflowing(1, FALSE)
    /\ call.rhs = Overflowing(0, FALSE)
    /\ res = DivideByZero

(***************************************************************************)
(* C14  Wrapping division: MIN / -1 wraps to MIN, everything else exact.   *)
(***************************************************************************)
\* r is the remainder of a by b (b # 0) that has the sign of a.
IsTruncRem(a, b, r) ==
    /\ AbsInt(r) < AbsInt(b)
    /\ (r = 0 \/ ((r < 0) = (a < 0)))
    /\ (a - r) % AbsInt(b) = 0

\* r is the non-negative remainder of a by b (b # 0).
IsEuclidRem(a, b, r) ==
    /\ 0 <= r
    /\ r < AbsInt(b)
    /\ (a - r) % AbsInt(b) = 0

\* v is the exact result of the division operator op on a and b (b # 0).
ExactDivision(op, a, b, v) ==
    CASE op = "div" -> IsTruncRem(a, b, a - v * b)
      [] op = "rem" -> IsTruncRem(a, b, v)
      [] op = "div_euclid" -> IsEuclidRem(a, b, a - v * b)
      [] op = "rem_euclid" -> IsEuclidRem(a, b, v)

\* C14: for signed T, Wrapping(MIN) / -1 and Wrapping(MIN).div_euclid(-1)
\* are MIN and Wrapping(MIN) % -1 and Wrapping(MIN).rem_euclid(-1) are 0,
\* without a panic; for every other pair with a non-zero divisor the
\* Wrapping quotient and remainder are the exact ones.
C14_WrappingDivisionIsExactButMinByMinusOne ==
    (/\ kind = "Wrapping"
     /\ call.op \in DivisionOps
     /\ OperandValue(call.rhs) # 0) =>
        LET a == call.lhs.value
            b == OperandValue(call.rhs)
        IN  /\ ~Panicked(res)
            /\ IF ty.signed /\ a = MinValue(ty) /\ b = -1
               THEN res.value = (IF call.op \in {"div", "div_euclid"}
                                 THEN MinValue(ty) ELSE 0)
               ELSE ExactDivision(call.op, a, b, res.value)

\* MIN.div_euclid(-1) on a signed type.
C14_Witness ==
    /\ kind = "Wrapping"
    /\ ty.signed
    /\ call.op = "div_euclid"
    /\ call.lhs = Wrapping(MinValue(ty))
    /\ call.rhs = Wrapping(-1)
    /\ res = Wrapping(MinValue(ty))

(***************************************************************************)
(* C15  Checked shifts never fail; a bad amount gives absent.              *)
(***************************************************************************)
ShiftOps == {"shl", "shr"}

\* v is x shifted by n bits (0 <= n < bits) in the type t: to the left with
\* the bits that leave the width dropped, to the right with the low bits
\* dropped (sign-extending for signed t).
ShiftedBy(t, op, x, n, v) ==
    IF op = "shl"
    THEN Congruent(t, v, x * ExactPow(2, n))
    ELSE v * ExactPow(2, n) <= x /\ x < (v + 1) * ExactPow(2, n)

\* C15: a Checked << or >> never panics.  With a present left operand the
\* result is absent if the amount (bare or Checked, of any integer type) is
\* an absent Checked, is negative or above u32::MAX, or is >= the bit width
\* of T; otherwise it is present with the value shifted by that amount.
C15_CheckedShiftsNeverFail ==
    (kind = "Checked" /\ call.op \in ShiftOps) =>
        /\ ~Panicked(res)
        /\ ~Absent(call.lhs) =>
              IF ~IsBare(call.rhs) /\ Absent(call.rhs)
              THEN res = Checked(None)
              ELSE LET n == RhsInt
                   IN  IF n < 0 \/ n > U32_MAX \/ n >= ty.bits
                       THEN res = Checked(None)
                       ELSE /\ ~Absent(res)
                            /\ ShiftedBy(ty, call.op, ValueOf(call.lhs), n,
                                         ValueOf(res))

\* An amount past u32::MAX in a present Checked.
C15_Witness ==
    /\ kind = "Checked"
    /\ call.op = "shr"
    /\ call.lhs = Checked(Some(1))
    /\ call.rhs = Checked(Some(U32_MAX + 1))
    /\ res = Checked(None)

(***************************************************************************)
(* C16  Wrapping and Overflowing shifts panic on an unconvertible amount.  *)
(***************************************************************************)
\* C16: for Wrapping and Overflowing, << and >> with an amount, bare or
\* wrapped, that is negative or above u32::MAX panic with the message of
\* the failed conversion; the call yields no value and no flag.
C16_BadShiftAmountIsFatal ==
    (/\ kind \in {"Wrapping", "Overflowing"}
     /\ call.op \in ShiftOps
     /\ (OperandValue(call.rhs) < 0 \/ OperandValue(call.rhs) > U32_MAX)) =>
        (res = ShiftAmountPanic /\ DOMAIN res = {"panic"})

\* A negative amount in a Wrapping.
C16_Witness ==
    /\ kind = "Wrapping"
    /\ call.op = "shl"
    /\ call.lhs = Wrapping(1)
    /\ call.rhs = Wrapping(-1)
    /\ res = ShiftAmountPanic

WrappingResult(t, op, a, rhs) ==
    CASE op = "add" -> WrappingAdd(t, Wrapping(a), rhs)
      [] op = "sub" -> WrappingSub(t, Wrapping(a), rhs)
      [] op = "mul" -> WrappingMul(t, Wrapping(a), rhs)
      [] op = "div" -> WrappingDiv(t, Wrapping(a), rhs)
      [] op = "rem" -> WrappingRem(t, Wrapping(a), rhs)
      [] op = "neg" -> WrappingNeg(t, Wrapping(a))
      [] op = "abs" -> WrappingAbs(t, Wrapping(a))
      [] op = "pow" -> WrappingPow(t, Wrapping(a), rhs.bare)
      [] op = "div_euclid" -> WrappingDivEuclid(t, Wrapping(a), rhs)
      [] op = "rem_euclid" -> WrappingRemEuclid(t, Wrapping(a), rhs)
      [] op = "shl" -> WrappingShl(t, Wrapping(a), rhs)
      [] op = "shr" -> WrappingShr(t, Wrapping(a), rhs)

\* The right operand of an Overflowing call, as Wrapping takes it.
AsWrappingOperand(r) == IF IsBare(r) THEN r ELSE Wrapping(r.value)

\* C18: for every operator Overflowing and Wrapping both have (+, -, *, /,
\* %, neg, <<, >> with a bare or wrapped right operand, abs, pow,
\* div_euclid, rem_euclid) and all operands on which neither panics, the
\* value of the Overflowing result is the value of the Wrapping result.
C18_OverflowingValueIsWrappingValue ==
    (/\ kind = "Overflowing"
     /\ call.op \in ArithmeticOps
     /\ ~Panicked(res)) =>
        LET w == WrappingResult(ty, call.op, call.lhs.value,
                     IF call.op \in {"neg", "abs"} THEN Bare(0)
                     ELSE AsWrappingOperand(call.rhs))
        IN  ~Panicked(w) => res.value = w.value

(***************************************************************************)
(* C19  Overflowing >> by a bare amount.                                   *)
(***************************************************************************)
\* C19: for every x and bare amount n with 0 <= n < bitwidth, the value of
\* Overflowing(x) >> n is x shifted right by n, and the result, value and
\* flag, is that of Overflowing(x) >> Overflowing::from(n).
C19_OverflowingShrBareShiftsRight ==
    (/\ kind = "Overflowing"
     /\ call.op = "shr"
     /\ IsBare(call.rhs)
     /\ 0 <= call.rhs.bare
     /\ call.rhs.bare < ty.bits) =>
        /\ ~Panicked(res)
        /\ ShiftedBy(ty, "shr", call.lhs.value, call.rhs.bare, res.value)
        /\ res = OverflowingShr(ty, call.lhs, OverflowingFrom(call.rhs.bare))

(***************************************************************************)
(* C20  The accessors: only unwrap and expect of an absent Checked panic.  *)
(***************************************************************************)
\* C20: Checked unwrap() and expect(msg) return the contained integer when
\* the value is present and panic exactly when it is absent; unwrap_or(d)
\* never panics and returns the contained integer when present, d when
\* absent; the accessors of Wrapping, Saturating and Overflowing never
\* panic and return the contained integer.
C20_OnlyUnwrapOfAbsentPanics ==
    /\ (kind = "Checked" /\ call.op \in {"unwrap", "expect"}) =>
          /\ Panicked(res) = Absent(call.lhs)
          /\ ~Absent(call.lhs) => res = Bare(ValueOf(call.lhs))
    /\ (kind = "Checked" /\ call.op = "unwrap_or") =>
          /\ ~Panicked(res)
          /\ res = (IF Absent(call.lhs) THEN call.rhs
                    ELSE Bare(ValueOf(call.lhs)))
    /\ (kind # "Checked" /\ call.op = "as_ref") =>
          /\ ~Panicked(res)
          /\ res = Bare(call.lhs.value)

\* unwrap() of an absent Checked.
C20_Witness ==
    /\ kind = "Checked"
    /\ call.op = "unwrap"
    /\ call.lhs = Checked(None)
    /\ Panicked(res)

(***************************************************************************)
(* C21  Comparison with an unwrapped operand reads the stored value only.  *)
(***************************************************************************)
\* The ordering of the optional integers o and p: absent below present.
OptionOrdering(o, p) ==
    CASE o = None /\ p = None -> "Equal"
      [] o = None /\ p # None -> "Less"
      [] o # None /\ p = None -> "Greater"
      [] OTHER -> LET a == CHOOSE v \in o : TRUE
                      b == CHOOSE v \in p : TRUE
                  IN  IF a < b THEN "Less"
                      ELSE IF a > b THEN "Greater" ELSE "Equal"

\* C21: for Wrapping, Saturating and Overflowing, w == n and the ordering
\* of w against a bare n are those of w.value and n, whatever the flag of
\* an Overflowing; for Checked, == and the ordering against an optional
\* integer are those of its optional value, so an absent Checked equals
\* the absent optional only.
C21_ComparisonReadsTheValue ==
    /\ (kind # "Checked" /\ call.op = "eq") =>
          res = Bare(call.lhs.value = call.rhs.bare)
    /\ (kind # "Checked" /\ call.op = "partial_cmp") =>
          res = Bare(Some(OptionOrdering({call.lhs.value}, {call.rhs.bare})))
    /\ (kind = "Checked" /\ call.op = "eq") =>
          /\ res = Bare(call.lhs.value = call.rhs.bare)
          /\ Absent(call.lhs) => (res.bare = (call.rhs.bare = None))
    /\ (kind = "Checked" /\ call.op = "partial_cmp") =>
          res = Bare(Some(OptionOrdering(call.lhs.value, call.rhs.bare)))

\* A flagged Overflowing compared with the integer it holds.
C21_Witness ==
    /\ kind = "Overflowing"
    /\ call.op = "eq"
    /\ call.lhs = Overflowing(1, TRUE)
    /\ call.rhs = Bare(1)
    /\ res = Bare(TRUE)

(***************************************************************************)
(* C22  Construction from a bare integer.                                  *)
(***************************************************************************)
\* C22: constructing a wrapper from a bare n never fails and gives a
\* present Checked holding n, a Wrapping or Saturating with value n, an
\* Overflowing with value n and has_overflowed = false; reading the value
\* of the new wrapper gives n (Some(n) for Checked).
C22_ConstructionFromBare ==
    call.op = "from" =>
        LET n == call.rhs.bare
        IN  /\ ~Panicked(res)
            /\ cur = res
            /\ cur = (CASE kind = "Checked" -> [value |-> {n}]
                        [] kind = "Overflowing" ->
                               [value |-> n, has_overflowed |-> FALSE]
                        [] OTHER -> [value |-> n])
            /\ IF kind = "Checked"
               THEN CheckedAsRef(cur) = Bare({n})
               ELSE as_ref(cur) = Bare(n)

\* The least integer of a signed type, made an Overflowing.
C22_Witness ==
    /\ kind = "Overflowing"
    /\ call.op = "from"
    /\ call.rhs = Bare(MinValue(ty))
    /\ ty.signed
    /\ cur = Overflowing(MinValue(ty), FALSE)

(***************************************************************************)
(* C23  Saturating multiplication clamps toward the exact product.         *)
(***************************************************************************)
\* C23: Saturating(a) * b (b a Saturating or bare) is a * b when that is in
\* the range of T, MAX when the exact product is above MAX and MIN when it
\* is below MIN; a too-negative product is never clamped to MAX.
C23_SaturatingMulClamps ==
    (kind = "Saturating" /\ call.op = "mul") =>
        LET e == call.lhs.value * RhsInt
        IN  /\ (MinValue(ty) <= e /\ e <= MaxValue(ty)) => res.value = e
            /\ e > MaxValue(ty) => res.value = MaxValue(ty)
            /\ e < MinValue(ty) =>
                   (res.value = MinValue(ty) /\ res.value # MaxValue(ty))

\* Operands of opposite sign whose product is below MIN.
C23_Witness ==
    /\ kind = "Saturating"
    /\ ty.signed
    /\ call.op = "mul"
    /\ call.lhs = Saturating(MaxValue(ty))
    /\ call.rhs = Saturating(-2)
    /\ res = Saturating(MinValue(ty))

(***************************************************************************)
(* C24  abs and negate of the signed minimum.                              *)
(***************************************************************************)
\* C24: for signed T, abs and unary minus of MIN give absent for Checked,
\* MIN for Wrapping, and value MIN with has_overflowed = true for
\* Overflowing; for every other v they give the exact |v| (resp. -v),
\* present for Checked and with the flag of the operand unchanged for
\* Overflowing.
C24_AbsAndNegOfMin ==
    (/\ call.op \in {"neg", "abs"}
     /\ kind \in {"Checked", "Wrapping", "Overflowing"}
     /\ (kind = "Checked" => ~Absent(call.lhs))) =>
        LET v == ValueOf(call.lhs)
            e == IF call.op = "abs" /\ v >= 0 THEN v ELSE 0 - v
        IN  /\ ty.signed
            /\ ~Panicked(res)
            /\ IF v = MinValue(ty)
               THEN CASE kind = "Checked" -> res = [value |-> {}]
                      [] kind = "Wrapping" -> res = [value |-> MinValue(ty)]
                      [] kind = "Overflowing" ->
                             res = [value |-> MinValue(ty),
                                    has_overflowed |-> TRUE]
               ELSE CASE kind = "Checked" -> res = [value |-> {e}]
                      [] kind = "Wrapping" -> res = [value |-> e]
                      [] kind = "Overflowing" ->
                             res = [value |-> e,
                                    has_overflowed |->
                                        call.lhs.has_overflowed]

\* abs of an unflagged Overflowing MIN.
C24_Witness ==
    /\ kind = "Overflowing"
    /\ ty.signed
    /\ call.op = "abs"
    /\ call.lhs = Overflowing(MinValue(ty), FALSE)
    /\ res = Overflowing(MinValue(ty), TRUE)

(***************************************************************************)
(* C25  Checked and Overflowing detect the same overflows.                 *)
(***************************************************************************)
\* What Overflowing returns for the operator op on a freshly constructed
\* Overflowing of a and the right operand rhs (bare, or an Overflowing; the
\* exponent of pow; unused by neg and abs).
OverflowingResult(t, op, a, rhs) ==
    CASE op = "add" -> OverflowingAdd(t, OverflowingFrom(a), rhs)
      [] op = "sub" -> OverflowingSub(t, OverflowingFrom(a), rhs)
      [] op = "mul" -> OverflowingMul(t, OverflowingFrom(a), rhs)
      [] op = "div" -> OverflowingDiv(t, OverflowingFrom(a), rhs)
      [] op = "rem" -> OverflowingRem(t, OverflowingFrom(a), rhs)
      [] op = "neg" -> OverflowingNeg(t, OverflowingFrom(a))
      [] op = "abs" -> OverflowingAbs(t, OverflowingFrom(a))
      [] op = "pow" -> OverflowingPow(t, OverflowingFrom(a), rhs.bare)
      [] op = "div_euclid" -> OverflowingDivEuclid(t, OverflowingFrom(a), rhs)
      [] op = "rem_euclid" -> OverflowingRemEuclid(t, OverflowingFrom(a), rhs)
      [] op = "shl" -> OverflowingShl(t, OverflowingFrom(a), rhs)
      [] op = "shr" -> OverflowingShr(t, OverflowingFrom(a), rhs)

\* The right operand of a Checked call (bare or present), as a freshly
\* constructed operand of Overflowing.
AsOverflowingOperand(r) ==
    IF IsBare(r) THEN r ELSE OverflowingFrom(CHOOSE v \in r.value : TRUE)

\* C25: for every operator both types have, on the same freshly
\* constructed operands (divisor not zero, shift amount within u32), the
\* Checked result is absent exactly when the Overflowing result has
\* has_overflowed = true.
C25_SameOverflowsDetected ==
    (/\ kind = "Checked"
     /\ call.op \in ArithmeticOps
     /\ ~Absent(call.lhs)
     /\ (call.op \in {"neg", "abs"} \/ IsBare(call.rhs) \/ ~Absent(call.rhs))
     /\ (call.op \in DivisionOps => RhsInt # 0)
     /\ (call.op \in ShiftOps => (0 <= RhsInt /\ RhsInt <= U32_MAX))) =>
        LET o == OverflowingResult(ty, call.op, ValueOf(call.lhs),
                     IF call.op \in {"neg", "abs"} THEN Bare(0)
                     ELSE AsOverflowingOperand(call.rhs))
        IN  /\ ~Panicked(res)
            /\ ~Panicked(o)
            /\ Absent(res) = o.has_overflowed

\* MIN / -1: absent for Checked, flagged for Overflowing.
C25_Witness ==
    /\ kind = "Checked"
    /\ ty.signed
    /\ call.op = "div"
    /\ call.lhs = Checked(Some(MinValue(ty)))
    /\ call.rhs = Bare(-1)
    /\ res = Checked(None)
    /\ OverflowingDiv(ty, OverflowingFrom(MinValue(ty)), Bare(-1))
           = Overflowing(MinValue(ty), TRUE)

(***************************************************************************)
(* C26  Wrapping + and - undo each other; Saturating ones do not once      *)
(*      the intermediate result was clamped.                               *)
(***************************************************************************)
\* C26: for a Wrapping of x and every k (bare or wrapped), (x + k) - k is
\* x and (x - k) + k is x, also when x + k or x - k wrapped around; for a
\* Saturating, the same round trip does not give x back when x + k or
\* x - k was clamped.
C26_WrappingRoundTrip ==
    /\ (kind = "Wrapping" /\ call.op = "add") =>
           WrappingSub(ty, res, call.rhs) = call.lhs
    /\ (kind = "Wrapping" /\ call.op = "sub") =>
           WrappingAdd(ty, res, call.rhs) = call.lhs
    /\ (/\ kind = "Saturating"
        /\ call.op = "add"
        /\ ~InRange(ty, Exact("add", ValueOf(call.lhs), RhsInt))) =>
           SaturatingSub(ty, res, call.rhs) # call.lhs
    /\ (/\ kind = "Saturating"
        /\ call.op = "sub"
        /\ ~InRange(ty, Exact("sub", ValueOf(call.lhs), RhsInt))) =>
           SaturatingAdd(ty, res, call.rhs) # call.lhs

\* A subtraction that wrapped below MIN, undone by adding k again.
C26_Witness ==
    /\ kind = "Wrapping"
    /\ call.op = "sub"
    /\ IsBare(call.rhs)
    /\ ValueOf(call.lhs) - RhsInt < MinValue(ty)
    /\ res = Wrapping(ValueOf(call.lhs) - RhsInt + Pow2(ty.bits))
    /\ WrappingAdd(ty, res, call.rhs) = call.lhs

(***************************************************************************)
(* C27  The default Checked is absent; the other defaults hold zero.       *)
(***************************************************************************)
\* C27: a default-constructed Checked is absent, not a present zero, and
\* every arithmetic operator applied to it gives absent; a
\* default-constructed Wrapping or Saturating holds 0 and a
\* default-constructed Overflowing holds 0 with has_overflowed = false.
C27_DefaultStates ==
    /\ call.op = "default" =>
           /\ res = cur
           /\ cur = (CASE kind = "Checked" -> [value |-> {}]
                       [] kind = "Overflowing" ->
                              [value |-> 0, has_overflowed |-> FALSE]
                       [] OTHER -> [value |-> 0])
    /\ (kind = "Checked" /\ call.op = "default") =>
           /\ \A n \in Inputs(ty) :
                 /\ Absent(CheckedAdd(ty, cur, Bare(n)))
                 /\ Absent(CheckedSub(ty, cur, Bare(n)))
                 /\ Absent(CheckedMul(ty, cur, Bare(n)))
                 /\ Absent(CheckedDiv(ty, cur, Bare(n)))
                 /\ Absent(CheckedRem(ty, cur, Bare(n)))
           /\ Absent(CheckedNeg(ty, cur))
           /\ Absent(CheckedAbs(ty, cur))
    /\ (kind = "Checked" /\ call.op \in ArithmeticOps /\ call.lhs = [value |-> {}])
           => res = [value |-> {}]

\* The default Checked, just constructed: absent, and still absent after +.
C27_Witness ==
    /\ kind = "Checked"
    /\ call.op = "default"
    /\ cur = [value |-> {}]
    /\ cur # Checked(Some(0))
    /\ CheckedAdd(ty, cur, Bare(1)) = [value |-> {}]

=============================================================================
